---- MODULE Spec2Model ----
(***************************************************************************)
(* A model of the DHT router module (dht/dhtcore/RouterModule.c): the node *)
(* store, the search store, the search driver's timer, and the handlers    *)
(* for incoming replies and outgoing messages; and of the event loop       *)
(* wrapper (util/events/libuv/EventBase.c).                                *)
(*                                                                         *)
(* NodeStore, SearchStore, AverageRoller and Timeout are used by the       *)
(* router through their interfaces only; their definitions here follow the *)
(* contracts the design document states for them.                          *)
(***************************************************************************)
EXTENDS Integers, Sequences, FiniteSets, TLC

VARIABLES nodeStore, searches, roller, now, out, last, crashed, calc,
          EventBase_refctr, bases, stack, ev

\* the event loops (util/events/libuv/EventBase.c): the global reference
\* counter, the EventBase_pvt structures, the activations of
\* EventBase_beginLoop and the last call made
evars == <<EventBase_refctr, bases, stack, ev>>

vars == <<nodeStore, searches, roller, now, out, last, crashed, calc,
          EventBase_refctr, bases, stack, ev>>

(***************************************************************************)
(* Bounds of the model.                                                    *)
(***************************************************************************)
\* peers have ids 1..MaxId; targets range over 0..MaxId (MaxId <= 3: an
\* id is told by the top two bits of its prefix)
MaxId == 2
\* network addresses 1..MaxAddr
MaxAddr == 1
\* searches begun over the life of the module
MaxSearches == 1
\* SearchNodes per search
MaxSearchNodes == 3
\* 26-byte records in the nodes field of one reply
MaxChunks == 2
\* clock ticks
MaxTime == 1
\* the prefixes the arithmetic is tried on: 0..MaxPrefix from either end of
\* the word's range
MaxPrefix == 7
\* the mean response times the ratio is tried on: 0..MaxGmrt and the
\* neighbours of the points where 2 * gmrt wraps
MaxGmrt == 3
\* the reaches a record of a module in mid-life starts from: 0 and the top
\* MaxReachGap + 1 values of the word's range
MaxReachGap == 0

(***************************************************************************)
(* Program constants.                                                      *)
(***************************************************************************)
GMRT_INITAL_MILLISECONDS == 100
RETURN_SIZE == 8
RouterModule_K == 8
\* The width of the program's unsigned words is scaled down from 32 bits to
\* 15: the model checker's integers are 32-bit signed, and the products the
\* ranking forms of two words must fit. Every operation on a word wraps at
\* this width (U32), as the program's wraps at 32 bits.
UINT32_MAX == 32767
\* milliseconds per tick of the model's clock
TickMs == 250
\* the first four bytes of an id, read as a host-order integer: the ids of
\* the model differ in the top two bits of the prefix
PrefixUnit == (UINT32_MAX + 1) \div 4

\* this node's id (myAddress)
MyId == 0
PeerIds == 1..MaxId
Targets == 0..MaxId
Addrs == 1..MaxAddr
\* the address the synthetic target node of cleanup() carries ("Unused")
UnusedAddr == 0
RequestTypes == {"find_node"}

(***************************************************************************)
(* 32-bit arithmetic.                                                      *)
(***************************************************************************)
RECURSIVE Xor(_, _)
Xor(a, b) ==
    IF a = 0 THEN b
    ELSE IF b = 0 THEN a
    ELSE (((a % 2) + (b % 2)) % 2) + 2 * Xor(a \div 2, b \div 2)

U32(x) == x % (UINT32_MAX + 1)

AddrPrefix_get(id) == id * PrefixUnit

\* XOR distance of two ids, on their 32-bit prefixes
Distance(a, b) == Xor(AddrPrefix_get(a), AddrPrefix_get(b))

(***************************************************************************)
(* Strings of a bencoded dictionary: a lookup yields NULL (len = -1) or a  *)
(* string of len bytes; val is the id a 20-byte string holds.              *)
(***************************************************************************)
NullString == [len |-> -1, val |-> 0]
ShortString == [len |-> 4, val |-> 0]
IdString(id) == [len |-> 20, val |-> id]

(***************************************************************************)
(* AverageRoller: the mean of the samples of the window.                   *)
(***************************************************************************)
AverageRoller_getAverage(r) == r.sum \div r.count

AverageRoller_update(r, sample) == [sum |-> r.sum + sample, count |-> r.count + 1]

(***************************************************************************)
(* NodeStore: id -> [reach, addr].                                         *)
(***************************************************************************)
NodeStore_addNode(store, id, addr) ==
    IF id \in DOMAIN store
    THEN [store EXCEPT ![id].addr = addr]
    ELSE store @@ (id :> [reach |-> 0, addr |-> addr])

\* a is ranked before b for target: smaller distance/reach, then smaller
\* distance, then larger reach
RankedBefore(store, target, a, b) ==
    LET da == Distance(a, target)
        db == Distance(b, target)
        ra == store[a].reach
        rb == store[b].reach
    IN  IF da * rb # db * ra THEN da * rb < db * ra
        ELSE IF (ra = 0) # (rb = 0) THEN ra > 0
        ELSE IF da # db THEN da < db
        ELSE ra > rb

RECURSIVE SortNodes(_, _, _)
SortNodes(store, target, ids) ==
    IF ids = {} THEN <<>>
    ELSE LET best == CHOOSE a \in ids :
                        \A b \in ids \ {a} : RankedBefore(store, target, a, b)
         IN  <<best>> \o SortNodes(store, target, ids \ {best})

\* the list of ids, best first, at most k of them
NodeStore_getClosestNodes(store, target, k) ==
    LET all == SortNodes(store, target, DOMAIN store)
    IN  IF Len(all) <= k THEN all ELSE SubSeq(all, 1, k)

NodeStore_getNode(store, id) == id \in DOMAIN store

(***************************************************************************)
(* SearchStore: a sequence of searches; a search holds its SearchNodes in  *)
(* the order they were added. A transaction id is <<search, node>>.        *)
(***************************************************************************)
Time_currentTimeMilliseconds == now * TickMs

SearchStore_newSearch(target) ==
    [target |-> target, nodes |-> <<>>, hasContext |-> FALSE,
     requestType |-> "", timer |-> [armed |-> FALSE, delay |-> 0, at |-> 0],
     stopped |-> FALSE]

\* a SearchNode that was sent a request before evictTime and never replied
\* is dropped from the trie; then the new node is appended under parent
SearchStore_addNodeToSearch(parent, id, addr, evictTime, search) ==
    LET kept == [i \in 1..Len(search.nodes) |->
                    IF /\ search.nodes[i].sent
                       /\ ~search.nodes[i].replied
                       /\ search.nodes[i].sendTime < evictTime
                    THEN [search.nodes[i] EXCEPT !.evicted = TRUE]
                    ELSE search.nodes[i]]
    IN  [search EXCEPT !.nodes =
            Append(kept, [id |-> id, addr |-> addr, parent |-> parent,
                          sent |-> FALSE, sendTime |-> 0, replied |-> FALSE,
                          delay |-> 0, evicted |-> FALSE])]

Unvisited(search) ==
    {i \in 1..Len(search.nodes) :
        ~search.nodes[i].sent /\ ~search.nodes[i].evicted}

\* the unvisited candidate closest to the target (the oldest one on a tie),
\* 0 for NULL
SearchStore_getNextNode(search) ==
    LET c == Unvisited(search)
        d(i) == Distance(search.nodes[i].id, search.target)
    IN  IF c = {} THEN 0
        ELSE CHOOSE i \in c :
                \A j \in c : d(i) < d(j) \/ (d(i) = d(j) /\ i <= j)

SearchStore_tidForNode(s, n) == <<s, n>>

SearchStore_requestSent(search, n) ==
    [search EXCEPT !.nodes[n].sent = TRUE,
                   !.nodes[n].sendTime = Time_currentTimeMilliseconds]

\* the node index a tid resolves to in the store, 0 for NULL
SearchStore_getNode(tid, ss) ==
    IF /\ tid[1] \in 1..Len(ss)
       /\ tid[2] \in 1..Len(ss[tid[1]].nodes)
       /\ ~ss[tid[1]].nodes[tid[2]].evicted
    THEN tid[2]
    ELSE 0

\* resolving a reply's tid records the reply on the node
SearchStore_replyReceived(search, n) ==
    [search EXCEPT !.nodes[n].replied = TRUE,
                   !.nodes[n].delay =
                       Time_currentTimeMilliseconds - search.nodes[n].sendTime]

\* the chain of node indices from a node back to its seed
RECURSIVE SearchStore_backTrace(_, _)
SearchStore_backTrace(search, n) ==
    IF n = 0 THEN <<>>
    ELSE <<n>> \o SearchStore_backTrace(search, search.nodes[n].parent)

(***************************************************************************)
(* The module's state as a record, so that a handler is an operator from   *)
(* a state and its inputs to the set of states it can leave behind.        *)
(*   out      the messages the handler handed on to the network            *)
(*   ret      the handler's return value                                   *)
(*   cbs      how often the handler invoked a search callback              *)
(*   cbView   what the callback was invoked on: the number of SearchNodes  *)
(*            of the search and the ids of the node store at that moment   *)
(*   next     the SearchNode searchStep picked (0: none or no searchStep)  *)
(***************************************************************************)
NoView == [nodes |-> 0, store |-> {}]

Module ==
    [nodeStore |-> nodeStore, searches |-> searches, roller |-> roller,
     out |-> <<>>, crashed |-> FALSE, ret |-> 0, cbs |-> 0, next |-> 0,
     cbView |-> NoView]

Crash(m) == [m EXCEPT !.crashed = TRUE]

evictUnrepliedIfOlderThan(m) ==
    Time_currentTimeMilliseconds - AverageRoller_getAverage(m.roller) * 2

tryNextNodeAfter(m) == AverageRoller_getAverage(m.roller) * 2

NoTid == <<0, 0>>

Message(y, t, q, to, isReply, hasArgs, myId, target) ==
    [y |-> y, t |-> t, q |-> q, to |-> to, isReply |-> isReply,
     hasArgs |-> hasArgs, myId |-> myId, target |-> target,
     hasNodes |-> FALSE, nodes |-> <<>>]

(***************************************************************************)
(* handleQuery: record the querier, write the closest nodes to the reply.  *)
(* query is the inbound message (replyTo): the strings of its arguments    *)
(* and the address it came from.                                           *)
(***************************************************************************)
\* mutant: a querier without a usable id is not recorded but is served
handleQuery_idUnchecked(m, msg, query) ==
    LET known == query.id.len = 20
        store1 == IF known
                  THEN NodeStore_addNode(m.nodeStore, query.id.val, query.peerAddr)
                  ELSE m.nodeStore
        target == IF query.target.len # -1 THEN query.target ELSE query.infoHash
    IN  IF target.len # 20
        THEN [m EXCEPT !.nodeStore = store1, !.out = Append(@, msg)]
        ELSE
          LET nodeList == NodeStore_getClosestNodes(store1, target.val, RouterModule_K)
              nodes == [i \in 1..Len(nodeList) |->
                          <<nodeList[i], store1[nodeList[i]].addr>>]
          IN  [m EXCEPT !.nodeStore = store1,
                        !.out = Append(@, IF Len(nodeList) > 0
                                          THEN [msg EXCEPT !.hasNodes = TRUE,
                                                           !.nodes = nodes]
                                          ELSE msg)]

handleQuery(m, msg, query) ==
    IF query.id.len # 20
    THEN [m EXCEPT !.out = Append(@, msg)]
    ELSE
      LET store1 == NodeStore_addNode(m.nodeStore, query.id.val, query.peerAddr)
          target == IF query.target.len # -1 THEN query.target ELSE query.infoHash
      IN  IF target.len # 20
          THEN [m EXCEPT !.nodeStore = store1, !.out = Append(@, msg)]
          ELSE
            LET nodeList == NodeStore_getClosestNodes(store1, target.val, RouterModule_K)
                nodes == [i \in 1..Len(nodeList) |->
                            <<nodeList[i], store1[nodeList[i]].addr>>]
            IN  [m EXCEPT !.nodeStore = store1,
                          !.out = Append(@, IF Len(nodeList) > 0
                                            THEN [msg EXCEPT !.hasNodes = TRUE,
                                                             !.nodes = nodes]
                                            ELSE msg)]

\* mutant: the id is put only into an arguments dictionary that is there
handleOutgoing_existingArgs(m, msg, query) ==
    LET tagged == IF msg.hasArgs
                  THEN [msg EXCEPT !.myId = MyId]
                  ELSE [msg EXCEPT !.hasArgs = TRUE]
    IN  IF msg.isReply
        THEN handleQuery(m, tagged, query)
        ELSE [m EXCEPT !.out = Append(@, tagged)]

(***************************************************************************)
(* handleOutgoing: tag the arguments with our id; a reply goes on to       *)
(* handleQuery.                                                            *)
(***************************************************************************)
handleOutgoing(m, msg, query) ==
    LET tagged == [msg EXCEPT !.hasArgs = TRUE, !.myId = MyId]
    IN  IF msg.isReply
        THEN handleQuery(m, tagged, query)
        ELSE [m EXCEPT !.out = Append(@, tagged)]

NoQuery ==
    [id |-> NullString, target |-> NullString, infoHash |-> NullString,
     peerAddr |-> 0]

(***************************************************************************)
(* sendRequest: build a query and hand it to the registry, which passes it *)
(* through handleOutgoing.                                                 *)
(***************************************************************************)
sendRequest(m, networkAddress, queryType, transactionId, searchTarget) ==
    handleOutgoing(m,
                   Message("q", transactionId, queryType, networkAddress,
                           FALSE, TRUE, MyId, searchTarget),
                   NoQuery)

(***************************************************************************)
(* A division of unsigned 32-bit integers. Dividing by zero is undefined:  *)
(* the process traps (-1 here) or, where the hardware does not trap, the   *)
(* division yields 0.                                                      *)
(***************************************************************************)
Trap == -1

DivU32(a, b) == IF b = 0 THEN {Trap, 0} ELSE {a \div b}

\* mutant: the ratio is not capped at twice the mean
calculateResponseTimeRatio_noCap(gmrt, responseTime) ==
    {IF q = Trap THEN Trap ELSE U32(q * responseTime) :
        q \in DivU32(UINT32_MAX \div 2, gmrt)}

\* the ratio for a response time, gmrt being the mean updated with it
calculateResponseTimeRatio(gmrt, responseTime) ==
    IF responseTime > U32(2 * gmrt)
    THEN {UINT32_MAX}
    ELSE {IF q = Trap THEN Trap ELSE U32(q * responseTime) :
             q \in DivU32(UINT32_MAX \div 2, gmrt)}

\* mutant: a reply farther from the target than the node is not refused
calculateDistance_noRefusal(nodeIdPrefix, targetPrefix, firstResponseIdPrefix) ==
    LET at == Xor(nodeIdPrefix, targetPrefix)
        bt == Xor(firstResponseIdPrefix, targetPrefix)
        ab == Xor(nodeIdPrefix, firstResponseIdPrefix)
    IN  IF at < ab THEN U32(ab - bt)
        ELSE ab

\* mutant: the reply's distance to the target is compared with its distance
\* to the node
calculateDistance_compareAb(nodeIdPrefix, targetPrefix, firstResponseIdPrefix) ==
    LET at == Xor(nodeIdPrefix, targetPrefix)
        bt == Xor(firstResponseIdPrefix, targetPrefix)
        ab == Xor(nodeIdPrefix, firstResponseIdPrefix)
    IN  IF bt > ab THEN 0
        ELSE IF at < ab THEN U32(ab - bt)
        ELSE ab

calculateDistance(nodeIdPrefix, targetPrefix, firstResponseIdPrefix) ==
    LET at == Xor(nodeIdPrefix, targetPrefix)
        bt == Xor(firstResponseIdPrefix, targetPrefix)
        ab == Xor(nodeIdPrefix, firstResponseIdPrefix)
    IN  IF bt > at THEN 0
        ELSE IF at < ab THEN U32(ab - bt)
        ELSE ab

(***************************************************************************)
(* cleanup: add a synthetic node for the target under lastNode, then walk  *)
(* the back-trace of lastNode and credit each parent still in the store.   *)
(* The walk starts with child = the trace of lastNode, parent = its next.  *)
(***************************************************************************)
\* mutant: the walk ends at the first parent that is gone from the store
RECURSIVE cleanupWalk_stopAtMissing(_, _, _, _)
cleanupWalk_stopAtMissing(m, s, trace, i) ==
    IF i + 1 > Len(trace) THEN {m}
    ELSE
      LET search == m.searches[s]
          child == search.nodes[trace[i]]
          parent == search.nodes[trace[i + 1]]
      IN  IF ~NodeStore_getNode(m.nodeStore, parent.id)
          THEN {m}
          ELSE
            LET roller1 == AverageRoller_update(m.roller, U32(parent.delay))
                dist == calculateDistance(AddrPrefix_get(parent.id),
                                          AddrPrefix_get(search.target),
                                          AddrPrefix_get(child.id))
                ratios == calculateResponseTimeRatio(
                              AverageRoller_getAverage(roller1), U32(parent.delay))
                gains == UNION {IF r = Trap THEN {Trap} ELSE DivU32(dist, r) :
                                   r \in ratios}
                m1 == [m EXCEPT !.roller = roller1]
            IN  UNION {IF g = Trap
                       THEN {Crash(m1)}
                       ELSE cleanupWalk_stopAtMissing(
                                [m1 EXCEPT !.nodeStore[parent.id].reach = U32(@ + g)],
                                s, trace, i + 1) :
                          g \in gains}

RECURSIVE cleanupWalk(_, _, _, _)
cleanupWalk(m, s, trace, i) ==
    IF i + 1 > Len(trace) THEN {m}
    ELSE
      LET search == m.searches[s]
          child == search.nodes[trace[i]]
          parent == search.nodes[trace[i + 1]]
      IN  IF ~NodeStore_getNode(m.nodeStore, parent.id)
          THEN cleanupWalk(m, s, trace, i + 1)
          ELSE
            LET roller1 == AverageRoller_update(m.roller, U32(parent.delay))
                dist == calculateDistance(AddrPrefix_get(parent.id),
                                          AddrPrefix_get(search.target),
                                          AddrPrefix_get(child.id))
                ratios == calculateResponseTimeRatio(
                              AverageRoller_getAverage(roller1), U32(parent.delay))
                gains == UNION {IF r = Trap THEN {Trap} ELSE DivU32(dist, r) :
                                   r \in ratios}
                m1 == [m EXCEPT !.roller = roller1]
            IN  UNION {IF g = Trap
                       THEN {Crash(m1)}
                       ELSE cleanupWalk(
                                [m1 EXCEPT !.nodeStore[parent.id].reach = U32(@ + g)],
                                s, trace, i + 1) :
                          g \in gains}

cleanup(m, s, lastNode) ==
    LET search == SearchStore_addNodeToSearch(lastNode, m.searches[s].target,
                                              UnusedAddr,
                                              evictUnrepliedIfOlderThan(m),
                                              m.searches[s])
        m1 == [m EXCEPT !.searches[s] = [search EXCEPT !.stopped = TRUE]]
    IN  cleanupWalk(m1, s, SearchStore_backTrace(search, lastNode), 1)

(***************************************************************************)
(* searchStep: send the request to the next node of the search and re-arm  *)
(* the search's timer. The next node is used without a test for NULL: with *)
(* no candidate left the read through it is undefined (the process dies,   *)
(* or a request goes to whatever address the read yields).                 *)
(***************************************************************************)
\* mutant: the request is not recorded on the SearchNode
searchStep_notRecorded(m, s) ==
    LET search == m.searches[s]
        next == SearchStore_getNextNode(search)
        rearmed == [armed |-> TRUE, delay |-> tryNextNodeAfter(m),
                    at |-> Time_currentTimeMilliseconds]
    IN  IF next = 0
        THEN {Crash(m)}
        ELSE {[sendRequest(m, search.nodes[next].addr, search.requestType,
                           SearchStore_tidForNode(s, next), search.target)
                  EXCEPT !.searches[s].timer = rearmed,
                         !.next = next]}

searchStep(m, s) ==
    LET search == m.searches[s]
        next == SearchStore_getNextNode(search)
        rearmed == [armed |-> TRUE, delay |-> tryNextNodeAfter(m),
                    at |-> Time_currentTimeMilliseconds]
    IN  IF next = 0
        THEN {Crash(m)} \cup
             {[sendRequest(m, a, search.requestType, NoTid, search.target)
                  EXCEPT !.searches[s].timer = rearmed] :
                 a \in Addrs}
        ELSE {[sendRequest(m, search.nodes[next].addr, search.requestType,
                           SearchStore_tidForNode(s, next), search.target)
                  EXCEPT !.searches[s] =
                             [SearchStore_requestSent(search, next)
                                 EXCEPT !.timer = rearmed],
                         !.next = next]}

(***************************************************************************)
(* handleReply. msg is the incoming reply: hasArgs (the "r" dictionary),   *)
(* id (its myId string), hasNodes, chunks (the whole 26-byte records of    *)
(* nodes), extra (the bytes of nodes after the last whole record), t.      *)
(* cbRet is what the search callback returns if it is invoked: 0 for       *)
(* continue.                                                               *)
(***************************************************************************)
NodesLen(msg) == 26 * Len(msg.chunks) + msg.extra

RECURSIVE addChunks(_, _, _, _, _, _)
addChunks(m, s, parent, chunks, evictTime, i) ==
    IF i > Len(chunks) THEN m
    ELSE addChunks(
             [m EXCEPT !.nodeStore =
                           NodeStore_addNode(@, chunks[i][1], chunks[i][2]),
                       !.searches[s] =
                           SearchStore_addNodeToSearch(parent, chunks[i][1],
                                                       chunks[i][2], evictTime, @)],
             s, parent, chunks, evictTime, i + 1)

\* the reply is taken for the answer to a ping: the sender is added to the
\* node store. The id is used without a test for NULL or for its length: a
\* missing or short id is read out of bounds (the process dies, or whatever
\* the read yields is added as an id).
handleReply_ping(m, msg) ==
    IF msg.id.len = 20
    THEN {[m EXCEPT !.nodeStore = NodeStore_addNode(@, msg.id.val, msg.peerAddr),
                    !.ret = -1]}
    ELSE {Crash(m)} \cup
         {[m EXCEPT !.nodeStore = NodeStore_addNode(@, g, msg.peerAddr),
                    !.ret = -1] : g \in PeerIds}

\* mutant: the next hop is left to the timer
handleReply_search_noStep(m, msg, s, parent, cbRet) ==
    LET m1 == [m EXCEPT !.searches[s] = SearchStore_replyReceived(@, parent)]
        m2 == addChunks(m1, s, parent, msg.chunks,
                        evictUnrepliedIfOlderThan(m1), 1)
        m3 == [m2 EXCEPT !.cbs = 1, !.ret = 0,
                         !.cbView = [nodes |-> Len(m2.searches[s].nodes),
                                     store |-> DOMAIN m2.nodeStore]]
    IN  IF cbRet = 0 THEN {m3} ELSE cleanup(m3, s, parent)

\* mutant: the callback is invoked before the nodes of the reply are added
handleReply_search_callbackFirst(m, msg, s, parent, cbRet) ==
    LET m1 == [m EXCEPT !.searches[s] = SearchStore_replyReceived(@, parent)]
        m2 == addChunks(m1, s, parent, msg.chunks,
                        evictUnrepliedIfOlderThan(m1), 1)
        m3 == [m2 EXCEPT !.cbs = 1, !.ret = 0,
                         !.cbView = [nodes |-> Len(m1.searches[s].nodes),
                                     store |-> DOMAIN m1.nodeStore]]
    IN  IF cbRet = 0 THEN searchStep(m3, s) ELSE cleanup(m3, s, parent)

\* mutant: the peer that replied is credited at once
handleReply_search_creditOnReply(m, msg, s, parent, cbRet) ==
    LET m1 == [m EXCEPT !.searches[s] = SearchStore_replyReceived(@, parent)]
        m2 == addChunks(m1, s, parent, msg.chunks,
                        evictUnrepliedIfOlderThan(m1), 1)
        id == m2.searches[s].nodes[parent].id
        m3 == [m2 EXCEPT !.cbs = 1, !.ret = 0,
                         !.cbView = [nodes |-> Len(m2.searches[s].nodes),
                                     store |-> DOMAIN m2.nodeStore],
                         !.nodeStore =
                             IF NodeStore_getNode(m2.nodeStore, id)
                             THEN [@ EXCEPT ![id].reach = U32(@ + 1)]
                             ELSE @]
    IN  IF cbRet = 0 THEN searchStep(m3, s) ELSE cleanup(m3, s, parent)

\* the reply of the search node parent of search s: the nodes are added to
\* the store and to the search, then the callback decides
handleReply_search(m, msg, s, parent, cbRet) ==
    LET m1 == [m EXCEPT !.searches[s] = SearchStore_replyReceived(@, parent)]
        m2 == addChunks(m1, s, parent, msg.chunks,
                        evictUnrepliedIfOlderThan(m1), 1)
        m3 == [m2 EXCEPT !.cbs = 1, !.ret = 0,
                         !.cbView = [nodes |-> Len(m2.searches[s].nodes),
                                     store |-> DOMAIN m2.nodeStore]]
    IN  IF cbRet = 0 THEN searchStep(m3, s) ELSE cleanup(m3, s, parent)

\* mutant: the nodes of a reply go to the node store before its tid is
\* looked up
handleReply_storeFirst(m, msg, cbRet) ==
    IF ~msg.hasArgs THEN {[m EXCEPT !.ret = 0]}
    ELSE IF ~msg.hasNodes \/ NodesLen(msg) % 26 # 0
    THEN handleReply_ping(m, msg)
    ELSE
      LET s == msg.t[1]
          parent == SearchStore_getNode(msg.t, m.searches)
          stored == [i \in 1..Len(msg.chunks) |-> msg.chunks[i][1]]
      IN  IF parent = 0
          THEN {[m EXCEPT !.ret = -1,
                          !.nodeStore =
                              IF Len(stored) = 0 THEN @
                              ELSE NodeStore_addNode(@, stored[1], msg.chunks[1][2])]}
          ELSE handleReply_search(m, msg, s, parent, cbRet)

handleReply(m, msg, cbRet) ==
    IF ~msg.hasArgs THEN {[m EXCEPT !.ret = 0]}
    ELSE IF ~msg.hasNodes \/ NodesLen(msg) % 26 # 0
    THEN handleReply_ping(m, msg)
    ELSE
      LET s == msg.t[1]
          parent == SearchStore_getNode(msg.t, m.searches)
      IN  IF parent = 0 THEN {[m EXCEPT !.ret = -1]}
          ELSE handleReply_search(m, msg, s, parent, cbRet)

handleIncoming(m, msg, cbRet) ==
    IF msg.y = "r" THEN handleReply(m, msg, cbRet) ELSE {[m EXCEPT !.ret = 0]}

(***************************************************************************)
(* RouterModule_beginSearch                                                *)
(***************************************************************************)
RECURSIVE addSeeds(_, _, _, _, _)
addSeeds(search, nodes, store, evictTime, i) ==
    IF i > Len(nodes) THEN search
    ELSE addSeeds(SearchStore_addNodeToSearch(0, nodes[i], store[nodes[i]].addr,
                                              evictTime, search),
                  nodes, store, evictTime, i + 1)

\* the search as begun once the seeds are known: the first request sent,
\* the timer set, the context stored
beginSearch_start(m1, s, nodes, requestType, searchTarget) ==
    LET seeded == addSeeds(m1.searches[s], nodes, m1.nodeStore,
                           evictUnrepliedIfOlderThan(m1), 1)
        first == SearchStore_getNextNode(seeded)
        m2 == sendRequest(m1, seeded.nodes[first].addr, requestType,
                          SearchStore_tidForNode(s, first), searchTarget)
    IN  [m2 EXCEPT !.searches[s] =
                       [SearchStore_requestSent(seeded, first)
                           EXCEPT !.timer = [armed |-> TRUE,
                                             delay |-> tryNextNodeAfter(m1),
                                             at |-> Time_currentTimeMilliseconds],
                                  !.hasContext = TRUE,
                                  !.requestType = requestType],
                   !.ret = 0, !.next = first]

\* mutant: an empty list of seeds is not seen as a failure
RouterModule_beginSearch_noCheck(m, requestType, searchTarget) ==
    LET s == Len(m.searches) + 1
        nodes == NodeStore_getClosestNodes(m.nodeStore, searchTarget, RETURN_SIZE)
        m1 == [m EXCEPT !.searches = Append(@, SearchStore_newSearch(searchTarget))]
    IN  IF Len(nodes) = 0 THEN [m1 EXCEPT !.ret = 0]
        ELSE beginSearch_start(m1, s, nodes, requestType, searchTarget)

\* mutant: the timer is set before the seeds are looked at
RouterModule_beginSearch_timerFirst(m, requestType, searchTarget) ==
    LET s == Len(m.searches) + 1
        nodes == NodeStore_getClosestNodes(m.nodeStore, searchTarget, RETURN_SIZE)
        m1 == [m EXCEPT !.searches = Append(@, SearchStore_newSearch(searchTarget))]
    IN  IF Len(nodes) = 0
        THEN [m1 EXCEPT !.ret = -1,
                        !.searches[s].timer = [armed |-> TRUE,
                                               delay |-> tryNextNodeAfter(m),
                                               at |-> Time_currentTimeMilliseconds]]
        ELSE beginSearch_start(m1, s, nodes, requestType, searchTarget)

RouterModule_beginSearch(m, requestType, searchTarget) ==
    LET s == Len(m.searches) + 1
        nodes == NodeStore_getClosestNodes(m.nodeStore, searchTarget, RETURN_SIZE)
        m1 == [m EXCEPT !.searches = Append(@, SearchStore_newSearch(searchTarget))]
    IN  IF Len(nodes) = 0 THEN [m1 EXCEPT !.ret = -1]
        ELSE beginSearch_start(m1, s, nodes, requestType, searchTarget)

\* mutant: a record added again by hand starts over
RouterModule_addNode_startOver(m, address, networkAddress) ==
    [m EXCEPT !.nodeStore =
                  [i \in (DOMAIN @) \cup {address} |->
                      IF i = address THEN [reach |-> 0, addr |-> networkAddress]
                      ELSE @[i]]]

RouterModule_addNode(m, address, networkAddress) ==
    [m EXCEPT !.nodeStore = NodeStore_addNode(@, address, networkAddress)]

(***************************************************************************)
(* The state machine. The module is single-threaded on one event loop: a  *)
(* handler runs to completion, then the loop takes its next turn. last     *)
(* describes the handler that has just run, and out holds the messages it  *)
(* handed to the network, until the loop's next turn:                      *)
(*   op      the entry point ("idle": the loop waits for its next event)   *)
(*   ret     its return value                                              *)
(*   search  the search it was about (0: none)                             *)
(*   node    the SearchNode a reply's tid resolved to before the handler   *)
(*           ran (0: none)                                                 *)
(*   cbs     how often the search callback was invoked, cbRet its answer   *)
(*   next    the SearchNode searchStep or beginSearch sent a request to    *)
(*   target  the target of the search or of the served query (-1: none)    *)
(*   stopped whether the callback of that search had returned stop before  *)
(*           the handler ran                                               *)
(*   y, args, nodes, idLen, id   the shape of the message that came in:    *)
(*           its type, whether it has an arguments dictionary, the kind of *)
(*           its nodes field, the length of the sender's id and the id     *)
(*           (for addNode: the id added)                                   *)
(*   chunks  the records of the nodes field of an accepted reply           *)
(*   cbView  what the search callback was invoked on                       *)
(***************************************************************************)
NoLast ==
    [op |-> "idle", ret |-> 0, search |-> 0, node |-> 0, cbs |-> 0,
     cbRet |-> 0, next |-> 0, target |-> -1, y |-> "", args |-> FALSE,
     nodes |-> "", idLen |-> -1, id |-> -1, stopped |-> FALSE,
     chunks |-> <<>>, cbView |-> NoView]

NoNodes == [i \in {} |-> [reach |-> 0, addr |-> 0]]

NoSamples == [sum |-> 0, count |-> 0]

(***************************************************************************)
(* The arithmetic of reach attribution taken alone: calc holds the         *)
(* arguments one of the two functions is called with and what it returned  *)
(* (fn is "none" while the router runs).                                   *)
(***************************************************************************)
NoCalc ==
    [fn |-> "none", node |-> 0, target |-> 0, reply |-> 0,
     gmrt |-> 0, responseTime |-> 0, called |-> FALSE, result |-> 0]

\* the module after RouterModule_register
NoEv ==
    [op |-> "none", base |-> 0, ret |-> 0, returned |-> FALSE, turn |-> 0,
     refs |-> 0, unrefs |-> 0, failed |-> ""]

\* no event base was made yet
NoLoops ==
    /\ EventBase_refctr = 0
    /\ bases = <<>>
    /\ stack = <<>>
    /\ ev = NoEv

Init ==
    /\ nodeStore = NoNodes
    /\ searches = <<>>
    /\ roller = AverageRoller_update(NoSamples, GMRT_INITAL_MILLISECONDS)
    /\ now = 0
    /\ out = <<>>
    /\ last = NoLast
    /\ crashed = FALSE
    /\ calc = NoCalc
    /\ NoLoops

\* the handler leaves the module in state m; a process that died leaves
\* nothing behind
Leave(m, l) ==
    /\ nodeStore' = IF m.crashed THEN NoNodes ELSE m.nodeStore
    /\ searches' = IF m.crashed THEN <<>> ELSE m.searches
    /\ roller' = IF m.crashed THEN NoSamples ELSE m.roller
    /\ out' = IF m.crashed THEN <<>> ELSE m.out
    /\ crashed' = m.crashed
    /\ last' = [l EXCEPT !.ret = m.ret, !.cbs = m.cbs, !.next = m.next,
                         !.cbView = m.cbView,
                         !.cbRet = IF m.cbs = 0 THEN 0 ELSE l.cbRet]
    /\ now' = IF m.crashed THEN 0 ELSE now
    /\ calc' = calc
    /\ UNCHANGED evars

Idle == ~crashed /\ last.op = "idle"

AddNode ==
    /\ Idle
    /\ \E id \in PeerIds, addr \in Addrs :
          Leave(RouterModule_addNode(Module, id, addr),
                [NoLast EXCEPT !.op = "addNode", !.idLen = 20, !.id = id])

BeginSearch ==
    /\ Idle
    /\ Len(searches) < MaxSearches
    /\ Cardinality(DOMAIN nodeStore) <= MaxSearchNodes
    /\ \E requestType \in RequestTypes, target \in Targets :
          Leave(RouterModule_beginSearch(Module, requestType, target),
                [NoLast EXCEPT !.op = "beginSearch",
                               !.search = Len(searches) + 1,
                               !.target = target])

\* the event loop fires the timer of search s, which runs searchStep
TimerFire ==
    /\ Idle
    /\ \E s \in 1..Len(searches) :
          /\ searches[s].timer.armed
          /\ Time_currentTimeMilliseconds >=
                 searches[s].timer.at + searches[s].timer.delay
          /\ \E m \in searchStep([Module EXCEPT !.searches[s].timer.armed = FALSE], s) :
                Leave(m, [NoLast EXCEPT !.op = "timerFire", !.search = s,
                                        !.target = searches[s].target,
                                        !.stopped = searches[s].stopped])

ChunkSeqs ==
    UNION {[1..n -> PeerIds \X Addrs] : n \in 0..MaxChunks}

Tids ==
    {NoTid} \cup ((1..MaxSearches) \X (1..MaxSearchNodes))

IdStrings == {NullString, ShortString} \cup {IdString(i) : i \in PeerIds}

TargetStrings == {NullString, ShortString} \cup {IdString(i) : i \in Targets}

\* a tid of no search, and the tid of the first node of the first search
PingTids == {NoTid, <<1, 1>>}

\* The replies the network can deliver: with well-formed nodes (the sender's
\* id is not read), with malformed nodes (one byte, or one record and a
\* byte), without nodes, and without a reply dictionary.
SearchReplies ==
    {[y |-> "r", hasArgs |-> TRUE, id |-> IdString(1), hasNodes |-> TRUE,
      chunks |-> c, extra |-> 0, t |-> t, peerAddr |-> a] :
        c \in ChunkSeqs, t \in Tids, a \in Addrs}

Replies ==
    SearchReplies
    \cup
    {[y |-> "r", hasArgs |-> TRUE, id |-> id, hasNodes |-> TRUE, chunks |-> c,
      extra |-> 1, t |-> t, peerAddr |-> a] :
        id \in IdStrings, c \in {<<>>, <<<<1, 1>>>>}, t \in PingTids, a \in Addrs}
    \cup
    {[y |-> "r", hasArgs |-> TRUE, id |-> id, hasNodes |-> FALSE, chunks |-> <<>>,
      extra |-> 0, t |-> t, peerAddr |-> a] :
        id \in IdStrings, t \in PingTids, a \in Addrs}
    \cup
    {[y |-> "r", hasArgs |-> FALSE, id |-> NullString, hasNodes |-> FALSE,
      chunks |-> <<>>, extra |-> 0, t |-> t, peerAddr |-> a] :
        t \in PingTids, a \in Addrs}

NodesKind(msg) ==
    IF ~msg.hasNodes THEN "absent"
    ELSE IF NodesLen(msg) % 26 # 0 THEN "malformed"
    ELSE "ok"

\* one of replies arrives from the network; the search it answers has room
\* for MaxSearchNodes SearchNodes, and for spare more if they are synthetic
\* nodes of cleanup
ReplyArrives(replies, spare) ==
    /\ Idle
    /\ \E msg \in replies, cbRet \in {0, 1} :
          LET node == SearchStore_getNode(msg.t, searches)
              asked == NodesKind(msg) = "ok" /\ node # 0
              room == IF asked
                      THEN Len(searches[msg.t[1]].nodes) + Len(msg.chunks)
                      ELSE 0
          IN  /\ room <= MaxSearchNodes
              /\ room + cbRet <= MaxSearchNodes + spare
              /\ ~asked => cbRet = 0
              /\ \E m \in handleIncoming(Module, msg, cbRet) :
                    Leave(m, [NoLast EXCEPT !.op = "handleIncoming",
                                            !.search = IF node = 0 THEN 0 ELSE msg.t[1],
                                            !.node = node,
                                            !.cbRet = cbRet,
                                            !.target = IF node = 0 THEN -1
                                                       ELSE searches[msg.t[1]].target,
                                            !.stopped = IF node = 0 THEN FALSE
                                                        ELSE searches[msg.t[1]].stopped,
                                            !.y = msg.y,
                                            !.args = msg.hasArgs,
                                            !.nodes = NodesKind(msg),
                                            !.chunks = IF asked THEN msg.chunks
                                                       ELSE <<>>,
                                            !.idLen = msg.id.len,
                                            !.id = IF msg.id.len = 20
                                                   THEN msg.id.val ELSE -1])

\* a reply arrives from the network
IncomingReply == ReplyArrives(Replies, 0)

\* a message that is no reply arrives from the network
IncomingOther ==
    /\ Idle
    /\ \E m \in handleIncoming(Module,
                               [y |-> "q", hasArgs |-> FALSE, id |-> NullString,
                                hasNodes |-> FALSE, chunks |-> <<>>, extra |-> 0,
                                t |-> NoTid, peerAddr |-> 0], 0) :
          Leave(m, [NoLast EXCEPT !.op = "handleIncoming", !.y = "q"])

\* the inbound queries: the target under "target", or under "info_hash"
\* with no "target", each absent, of a wrong length, or an id
Queries ==
    {[id |-> id, target |-> t, infoHash |-> NullString, peerAddr |-> a] :
        id \in IdStrings, t \in TargetStrings, a \in Addrs}
    \cup
    {[id |-> id, target |-> NullString, infoHash |-> ih, peerAddr |-> a] :
        id \in IdStrings, ih \in TargetStrings, a \in Addrs}

QueryTarget(query) ==
    LET t == IF query.target.len # -1 THEN query.target ELSE query.infoHash
    IN  IF query.id.len = 20 /\ t.len = 20 THEN t.val ELSE -1

\* another module's reply to an inbound query passes through handleOutgoing,
\* with or without a reply dictionary
OutgoingReply ==
    /\ Idle
    /\ \E query \in Queries, hasArgs \in BOOLEAN :
          Leave(handleOutgoing(Module,
                               Message("r", NoTid, "", query.peerAddr, TRUE,
                                       hasArgs, -1, -1),
                               query),
                [NoLast EXCEPT !.op = "handleOutgoing", !.y = "r",
                               !.args = hasArgs,
                               !.idLen = query.id.len,
                               !.id = IF query.id.len = 20 THEN query.id.val ELSE -1,
                               !.target = QueryTarget(query)])

\* another module's request (a ping) passes through handleOutgoing
OutgoingRequest ==
    /\ Idle
    /\ \E to \in Addrs, hasArgs \in BOOLEAN :
          Leave(handleOutgoing(Module,
                               Message("q", NoTid, "ping", to, FALSE,
                                       hasArgs, -1, -1),
                               NoQuery),
                [NoLast EXCEPT !.op = "handleOutgoing", !.y = "q",
                               !.args = hasArgs])

\* time passes
Tick ==
    /\ Idle
    /\ now < MaxTime
    /\ now' = now + 1
    /\ UNCHANGED <<nodeStore, searches, roller, out, last, crashed, calc, evars>>

\* the handler has returned: the loop takes its next turn
LoopTurn ==
    /\ ~crashed
    /\ last.op # "idle"
    /\ out' = <<>>
    /\ last' = NoLast
    /\ UNCHANGED <<nodeStore, searches, roller, now, crashed, calc, evars>>

Next ==
    \/ AddNode
    \/ BeginSearch
    \/ TimerFire
    \/ IncomingReply
    \/ IncomingOther
    \/ OutgoingReply
    \/ OutgoingRequest
    \/ Tick
    \/ LoopTurn

Spec == Init /\ [][Next]_vars

(***************************************************************************)
(* Reach attribution in a module in mid-life: the node store has been      *)
(* through earlier searches (its records have gathered reach, up to the    *)
(* top of the word's range), and while a search is in flight a record is   *)
(* evicted when a peer outside the ids of the model is added to the full   *)
(* store. A search has room for a chain of MaxSearchNodes peers and the    *)
(* synthetic node of cleanup.                                              *)
(***************************************************************************)
Reaches == {0} \cup {UINT32_MAX - k : k \in 0..MaxReachGap}

AgedStores ==
    UNION {[ids -> [reach : Reaches, addr : Addrs]] : ids \in SUBSET PeerIds}

CreditInit ==
    /\ nodeStore \in AgedStores
    /\ searches = <<>>
    /\ roller = AverageRoller_update(NoSamples, GMRT_INITAL_MILLISECONDS)
    /\ now = 0
    /\ out = <<>>
    /\ last = NoLast
    /\ crashed = FALSE
    /\ calc = NoCalc
    /\ NoLoops

\* a reply with well-formed nodes arrives
CreditReply == ReplyArrives(SearchReplies, 1)

\* while a search is in flight the store is full and a peer the model does
\* not follow is added: the record of id makes room for it
EvictNode ==
    /\ Idle
    /\ \E s \in 1..Len(searches) : ~searches[s].stopped
    /\ \E id \in DOMAIN nodeStore :
          nodeStore' = [i \in (DOMAIN nodeStore) \ {id} |-> nodeStore[i]]
    /\ UNCHANGED <<searches, roller, now, out, last, crashed, calc, evars>>

CreditNext ==
    \/ BeginSearch
    \/ CreditReply
    \/ EvictNode
    \/ Tick
    \/ LoopTurn

CreditSpec == CreditInit /\ [][CreditNext]_vars

(***************************************************************************)
(* calculateDistance and calculateResponseTimeRatio on their own: the      *)
(* arguments are drawn from either end of the word's range; the response   *)
(* time then runs through the whole range for the mean it was drawn with.  *)
(***************************************************************************)
Prefixes == (0..MaxPrefix) \cup {UINT32_MAX - k : k \in 0..MaxPrefix}

Gmrts ==
    (0..MaxGmrt) \cup {GMRT_INITAL_MILLISECONDS}
        \cup {UINT32_MAX \div 2 + k - 1 : k \in 0..MaxGmrt}
        \cup {UINT32_MAX - k : k \in 0..MaxGmrt}

RouterIdle ==
    /\ nodeStore = NoNodes
    /\ searches = <<>>
    /\ roller = AverageRoller_update(NoSamples, GMRT_INITAL_MILLISECONDS)
    /\ now = 0
    /\ out = <<>>
    /\ last = NoLast
    /\ crashed = FALSE

CalcInit ==
    /\ RouterIdle
    /\ NoLoops
    /\ \/ \E node \in Prefixes, target \in Prefixes, reply \in Prefixes :
              calc = [NoCalc EXCEPT !.fn = "calculateDistance", !.node = node,
                                    !.target = target, !.reply = reply]
       \/ \E gmrt \in Gmrts :
              calc = [NoCalc EXCEPT !.fn = "calculateResponseTimeRatio",
                                    !.gmrt = gmrt]

CallDistance ==
    /\ calc.fn = "calculateDistance"
    /\ ~calc.called
    /\ calc' = [calc EXCEPT !.called = TRUE,
                            !.result = calculateDistance(calc.node, calc.target,
                                                         calc.reply)]
    /\ UNCHANGED <<nodeStore, searches, roller, now, out, last, crashed, evars>>

\* the first call is made with a response time of 0, each later one with
\* the next response time
CallRatio ==
    /\ calc.fn = "calculateResponseTimeRatio"
    /\ calc.result # Trap
    /\ LET t == IF calc.called THEN calc.responseTime + 1 ELSE 0
       IN  /\ t <= UINT32_MAX
           /\ \E r \in calculateResponseTimeRatio(calc.gmrt, t) :
                 calc' = [calc EXCEPT !.called = TRUE, !.responseTime = t,
                                      !.result = r]
    /\ UNCHANGED <<nodeStore, searches, roller, now, out, last, crashed, evars>>

CalcNext ==
    \/ CallDistance
    \/ CallRatio

CalcSpec == CalcInit /\ [][CalcNext]_vars

(***************************************************************************)
(* The event loop wrapper (util/events/libuv/EventBase.c). One thread      *)
(* runs the program: code is either outside every loop or a callback of    *)
(* the innermost running loop, and may call any function of the wrapper.   *)
(***************************************************************************)
\* event bases made over the life of the process
MaxBases == 2
\* calls of EventBase_ref, and of EventBase_unref
MaxRefs == 2

Allocator_ONFREE_ASYNC == 10000

\* a base as EventBase_new leaves it (the structure is calloc'ed); deleted
\* and completed count the calls of uv_loop_delete and of
\* Allocator_onFreeComplete, restarted tells that uv_run was entered again
EventBase_pvt ==
    [loop |-> "new", blockTimer |-> "init", running |-> 0, onFree |-> FALSE,
     stop |-> FALSE, alloc |-> "live", deleted |-> 0, completed |-> 0,
     restarted |-> FALSE]

\* uv_close of the block timer unless it is closing already
closeBlockTimer(ctx) ==
    IF ctx.blockTimer # "closing" THEN [ctx EXCEPT !.blockTimer = "closing"]
    ELSE ctx

uv_loop_delete(ctx) == [ctx EXCEPT !.loop = "deleted", !.deleted = @ + 1]

uv_stop(ctx) == [ctx EXCEPT !.stop = TRUE]

EventBase_endLoop(ctx) == uv_stop(ctx)

\* the job is called complete and the allocator finishes freeing
Allocator_onFreeComplete(ctx) ==
    [ctx EXCEPT !.completed = @ + 1, !.alloc = "freed"]

\* mutant: the loop is deleted at once also while it is running
onFree_deleteRunning(ctx) ==
    IF ctx.running # 0
    THEN [ctx |-> uv_loop_delete(EventBase_endLoop([ctx EXCEPT !.onFree = TRUE])),
          ret |-> Allocator_ONFREE_ASYNC]
    ELSE [ctx |-> uv_loop_delete(closeBlockTimer(ctx)), ret |-> 0]

\* the job the allocator of a base runs when it is freed
onFree(ctx) ==
    IF ctx.running # 0
    THEN [ctx |-> EventBase_endLoop([ctx EXCEPT !.onFree = TRUE]),
          ret |-> Allocator_ONFREE_ASYNC]
    ELSE [ctx |-> uv_loop_delete(closeBlockTimer(ctx)), ret |-> 0]

\* freeing the allocator runs the job; a job that answers ASYNC keeps the
\* allocator until Allocator_onFreeComplete
Allocator_free(ctx) ==
    LET job == onFree(ctx)
    IN  [job EXCEPT !.ctx.alloc = IF job.ret = Allocator_ONFREE_ASYNC
                                  THEN "freeing" ELSE "freed"]

\* mutant: the counter is not looked at
EventBase_new_unchecked(refctr) ==
    [failed |-> "", ctx |-> EventBase_pvt]

\* Assert_true(EventBase_refctr == 0)
EventBase_new(refctr) ==
    [failed |-> IF refctr = 0 THEN "" ELSE "EventBase_refctr == 0",
     ctx |-> EventBase_pvt]

\* EventBase_beginLoop up to the first uv_run
EventBase_beginLoop(ctx) ==
    IF ctx.running # 0
    THEN [failed |-> "double begin", ctx |-> ctx]
    ELSE [failed |-> "",
          ctx |-> [ctx EXCEPT !.running = 1, !.blockTimer = "started"]]

\* mutant: the loop is run once, whatever the counter
afterRun_once(ctx, refctr) ==
    LET ctx1 == [ctx EXCEPT !.stop = FALSE, !.running = 0]
    IN  IF ctx1.onFree
        THEN Allocator_onFreeComplete(uv_loop_delete(closeBlockTimer(ctx1)))
        ELSE ctx1

\* EventBase_beginLoop from the return of uv_run: the loop is run again
\* while the counter is not zero; then running is reset and a stored free
\* job is carried out
afterRun(ctx, refctr) ==
    LET ctx1 == [ctx EXCEPT !.stop = FALSE]
    IN  IF refctr # 0
        THEN [ctx1 EXCEPT !.blockTimer = "started", !.restarted = TRUE]
        ELSE
          LET ctx2 == [ctx1 EXCEPT !.running = 0]
          IN  IF ctx2.onFree
              THEN Allocator_onFreeComplete(uv_loop_delete(closeBlockTimer(ctx2)))
              ELSE ctx2

EventBase_ref(refctr) == refctr + 1

EventBase_unref(refctr) == refctr - 1

\* the process runs (no assertion has stopped it)
Alive == ev.failed = ""

\* the bases whose allocator is not freed
LiveBases == {b \in 1..Len(bases) : bases[b].alloc # "freed"}

Called(op, b, ret) ==
    [ev EXCEPT !.op = op, !.base = b, !.ret = ret, !.returned = FALSE,
               !.turn = 1 - @]

RouterUnchanged ==
    UNCHANGED <<nodeStore, searches, roller, now, out, last, crashed, calc>>

NewBase ==
    /\ Alive
    /\ Len(bases) < MaxBases
    /\ LET made == EventBase_new(EventBase_refctr)
       IN  /\ bases' = IF made.failed = "" THEN Append(bases, made.ctx) ELSE bases
           /\ ev' = [Called("new", Len(bases) + 1, 0) EXCEPT !.failed = made.failed]
    /\ UNCHANGED <<EventBase_refctr, stack>>
    /\ RouterUnchanged

BeginLoop ==
    /\ Alive
    /\ \E b \in LiveBases :
          LET begun == EventBase_beginLoop(bases[b])
          IN  /\ bases' = [bases EXCEPT ![b] = begun.ctx]
              /\ stack' = IF begun.failed = "" THEN Append(stack, b) ELSE stack
              /\ ev' = [Called("beginLoop", b, 0) EXCEPT !.failed = begun.failed]
    /\ UNCHANGED EventBase_refctr
    /\ RouterUnchanged

\* uv_run of the innermost running loop returns: it was stopped, or it has
\* nothing left to wait for
LoopRunEnds ==
    /\ Alive
    /\ stack # <<>>
    /\ LET b == stack[Len(stack)]
           ctx == afterRun(bases[b], EventBase_refctr)
       IN  /\ bases' = [bases EXCEPT ![b] = ctx]
           /\ stack' = IF ctx.running = 0
                       THEN SubSeq(stack, 1, Len(stack) - 1) ELSE stack
           /\ ev' = [Called("runEnds", b, 0) EXCEPT !.returned = (ctx.running = 0)]
    /\ UNCHANGED EventBase_refctr
    /\ RouterUnchanged

EndLoop ==
    /\ Alive
    /\ \E b \in LiveBases :
          /\ bases' = [bases EXCEPT ![b] = EventBase_endLoop(@)]
          /\ ev' = Called("endLoop", b, 0)
    /\ UNCHANGED <<EventBase_refctr, stack>>
    /\ RouterUnchanged

\* the allocator of a base is freed
FreeBase ==
    /\ Alive
    /\ \E b \in LiveBases :
          /\ bases[b].alloc = "live"
          /\ LET job == Allocator_free(bases[b])
             IN  /\ bases' = [bases EXCEPT ![b] = job.ctx]
                 /\ ev' = Called("free", b, job.ret)
    /\ UNCHANGED <<EventBase_refctr, stack>>
    /\ RouterUnchanged

Ref ==
    /\ Alive
    /\ ev.refs < MaxRefs
    /\ EventBase_refctr' = EventBase_ref(EventBase_refctr)
    /\ ev' = [Called("ref", 0, 0) EXCEPT !.refs = @ + 1]
    /\ UNCHANGED <<bases, stack>>
    /\ RouterUnchanged

Unref ==
    /\ Alive
    /\ ev.unrefs < MaxRefs
    /\ EventBase_refctr' = EventBase_unref(EventBase_refctr)
    /\ ev' = [Called("unref", 0, 0) EXCEPT !.unrefs = @ + 1]
    /\ UNCHANGED <<bases, stack>>
    /\ RouterUnchanged

EventInit ==
    /\ RouterIdle
    /\ calc = NoCalc
    /\ NoLoops

EventNext ==
    \/ NewBase
    \/ BeginLoop
    \/ LoopRunEnds
    \/ EndLoop
    \/ FreeBase
    \/ Ref
    \/ Unref

EventSpec == EventInit /\ [][EventNext]_vars

(***************************************************************************)
(* The claims.                                                             *)
(***************************************************************************)
BeginSearchRan == last.op = "beginSearch"

ReplyHandled == ~crashed /\ last.op = "handleIncoming" /\ last.y = "r"

QueryServed == last.op = "handleOutgoing" /\ last.y = "r"

\* C1: RouterModule_beginSearch returns -1 if and only if the node store
\* yields no closest node for the target (seeding finds no candidate), and
\* returns 0 in every other case.
C1_BeginSearchReturn ==
    BeginSearchRan =>
        IF Len(NodeStore_getClosestNodes(nodeStore, last.target, RETURN_SIZE)) = 0
        THEN last.ret = -1
        ELSE last.ret = 0

C1_Witness ==
    /\ BeginSearchRan
    /\ last.ret = -1
    /\ Len(NodeStore_getClosestNodes(nodeStore, last.target, RETURN_SIZE)) = 0

\* C2: a begin_search on an empty node store fails and has handed no request
\* to the registry and scheduled no timer.
C2_EmptyStoreNoEffects ==
    (BeginSearchRan /\ DOMAIN nodeStore = {}) =>
        /\ last.ret = -1
        /\ out = <<>>
        /\ \A s \in 1..Len(searches) : ~searches[s].timer.armed

C2_Witness ==
    /\ BeginSearchRan
    /\ DOMAIN nodeStore = {}
    /\ out = <<>>
    /\ Len(searches) = last.search

\* C3: loop-freedom. Every node in the nodes field of a reply to a query is
\* closer to the query's target than this node is.
C3_LoopFreedom ==
    QueryServed =>
        \A i \in 1..Len(out) :
            out[i].hasNodes =>
                \A k \in 1..Len(out[i].nodes) :
                    Distance(out[i].nodes[k][1], last.target) <
                        Distance(MyId, last.target)

\* this node's opinion of its own reach: the reach of the longest reaching
\* node it knows
OurReach ==
    IF DOMAIN nodeStore = {} THEN 0
    ELSE LET best == CHOOSE a \in DOMAIN nodeStore :
                        \A b \in DOMAIN nodeStore :
                            nodeStore[a].reach >= nodeStore[b].reach
         IN  nodeStore[best].reach

\* this node has reach, and no node with reach in the store has a smaller
\* distance:reach ratio for the target
WeAreClosest(target) ==
    /\ OurReach > 0
    /\ \A n \in DOMAIN nodeStore :
          nodeStore[n].reach > 0 =>
              Distance(MyId, target) * nodeStore[n].reach <=
                  Distance(n, target) * OurReach

\* C4: the nodes key is written to a reply only if the list of closest nodes
\* is not empty and this node is not the closest node with reach to the
\* target.
C4_NoNodesWhenClosest ==
    QueryServed =>
        \A i \in 1..Len(out) :
            out[i].hasNodes =>
                /\ last.target # -1
                /\ Len(NodeStore_getClosestNodes(nodeStore, last.target,
                                                 RouterModule_K)) > 0
                /\ ~WeAreClosest(last.target)

\* C5: every message that passed through handleOutgoing left, with an
\* arguments dictionary that holds our id.
C5_MyIdTagged ==
    /\ last.op = "handleOutgoing" => Len(out) = 1
    /\ \A i \in 1..Len(out) : out[i].hasArgs /\ out[i].myId = MyId

\* a reply that came without a dictionary, for a query without a sender id
C5_Witness ==
    /\ QueryServed
    /\ ~last.args
    /\ last.idLen # 20
    /\ Len(out) = 1
    /\ out[1].isReply
    /\ out[1].myId = MyId
    /\ ~out[1].hasNodes

\* a reply whose tid resolved to no SearchNode has just been handled
StaleReplyHandled == ReplyHandled /\ last.node = 0

\* the reply left the node store and the searches alone, invoked no
\* callback and sent nothing
ReplyDropped ==
    /\ nodeStore' = nodeStore
    /\ searches' = searches
    /\ last'.cbs = 0
    /\ out' = <<>>

C7_MalformedIsPing ==
    [][(last'.op = "handleIncoming" /\ last'.y = "r" /\ last'.nodes = "malformed") =>
           /\ ~crashed'
           /\ last'.idLen = 20 => last'.id \in DOMAIN nodeStore'
           /\ (DOMAIN nodeStore') \ (DOMAIN nodeStore) \subseteq {last'.id}
           /\ searches' = searches
           /\ last'.cbs = 0
           /\ out' = <<>>]_vars

\* the callback has just answered continue to an accepted reply
ReplyContinued ==
    last.op = "handleIncoming" /\ last.y = "r" /\ last.cbs = 1 /\ last.cbRet = 0

\* C8: when the callback answers continue and the search has an unvisited
\* candidate, the handler itself sends exactly one request, to the unvisited
\* candidate closest to the target, with that node's tid; a candidate that
\* was unvisited before the reply is enough for the request to be sent, and
\* the handler names no next hop only if no candidate is left.
C8_NextHopImmediately ==
    [][ReplyContinued' =>
           LET s == last'.search
               n == last'.next
               search == searches'[s]
           IN  /\ Unvisited(searches[s]) # {} => ~crashed' /\ n # 0
               /\ ~crashed' /\ n = 0 => Unvisited(search) = {}
               /\ ~crashed' /\ n # 0 =>
                    /\ Len(out') = 1
                    /\ out'[1].y = "q"
                    /\ out'[1].to = search.nodes[n].addr
                    /\ out'[1].t = <<s, n>>
                    /\ n > Len(searches[s].nodes) \/ ~searches[s].nodes[n].sent
                    /\ ~search.nodes[n].evicted
                    /\ \A j \in Unvisited(search) :
                          Distance(search.nodes[n].id, search.target) <=
                              Distance(search.nodes[j].id, search.target)]_vars

\* the next hop went to a node the reply brought, past an older candidate
\* that is farther from the target
C8_Witness ==
    /\ ReplyContinued
    /\ ~crashed
    /\ last.next # 0
    /\ Len(out) = 1
    /\ out[1].t = <<last.search, last.next>>
    /\ \E j \in Unvisited(searches[last.search]) :
          /\ j < last.next
          /\ Distance(searches[last.search].nodes[j].id, last.target) >
                 Distance(searches[last.search].nodes[last.next].id, last.target)

\* C9: once the callback of a search has returned stop, no timer fire runs
\* searchStep for the search, no request is sent for it and its callback is
\* not invoked again.
C9_StoppedStaysStopped ==
    [][\A s \in 1..Len(searches) :
           searches[s].stopped =>
               ~(/\ last'.search = s
                 /\ \/ last'.op = "timerFire"
                    \/ last'.cbs > 0
                    \/ \E i \in 1..Len(out') : out'[i].t[1] = s)]_vars

\* the search driver has just acted on a search that is in flight
SearchAdvanced ==
    /\ ~last.stopped
    /\ \/ BeginSearchRan /\ last.ret = 0
       \/ last.op = "timerFire"
       \/ ReplyContinued

\* C10: after begin_search, after every timer fire and after every reply
\* answered with continue, the timer of the search is armed with a delay of
\* twice the global mean response time, so that the search goes on.
C10_TimerArmed ==
    SearchAdvanced =>
        /\ ~crashed
        /\ searches[last.search].timer.armed
        /\ searches[last.search].timer.delay = 2 * AverageRoller_getAverage(roller)

\* calculateDistance has returned
DistanceCalled == calc.fn = "calculateDistance" /\ calc.called

\* the three distances calculateDistance was called on
CalcAt == Xor(calc.node, calc.target)

CalcBt == Xor(calc.reply, calc.target)

CalcAb == Xor(calc.node, calc.reply)

\* C11: calculateDistance returns a value in [0, ab], ab = node XOR reply;
\* in the overshoot case (bt <= at < ab) ab - bt does not underflow and is
\* what is returned.
C11_DistanceInRange ==
    DistanceCalled =>
        /\ calc.result \in 0..CalcAb
        /\ CalcBt <= CalcAt /\ CalcAt < CalcAb =>
               CalcAb >= CalcBt /\ calc.result = CalcAb - CalcBt

\* an overshoot with a reply off the target, at either end of the range
C11_Witness ==
    /\ DistanceCalled
    /\ CalcBt <= CalcAt
    /\ CalcAt < CalcAb
    /\ CalcBt > 0
    /\ calc.result > 0
    /\ CalcAb > UINT32_MAX \div 2

\* C12: a reply that is not closer to the target than the node (reply XOR
\* target >= node XOR target, equality included) yields 0.
C12_BackpedalIsZero ==
    DistanceCalled /\ CalcBt >= CalcAt => calc.result = 0

\* the equality case, off the target
C12_Witness ==
    /\ DistanceCalled
    /\ CalcBt = CalcAt
    /\ CalcAt > 0
    /\ calc.result = 0

\* calculateResponseTimeRatio has returned, for a mean that is not zero
RatioCalled ==
    calc.fn = "calculateResponseTimeRatio" /\ calc.called /\ calc.gmrt # 0

\* C13: for a fixed non-zero gmrt the ratio lies in [0, UINT32_MAX], the
\* product ((UINT32_MAX / 2) / gmrt) * t does not wrap, and the ratio for
\* t + 1 is not below the ratio for t, for every t of the range.
C13_RatioMonotone ==
    [][RatioCalled' =>
           /\ calc'.result \in 0..UINT32_MAX
           /\ calc'.responseTime <= U32(2 * calc'.gmrt) =>
                  ((UINT32_MAX \div 2) \div calc'.gmrt) * calc'.responseTime
                      = calc'.result
           /\ calc.called =>
                  /\ calc'.responseTime = calc.responseTime + 1
                  /\ calc.result <= calc'.result]_vars

\* the ratio has stepped from below the cap to the cap
C13_Witness ==
    /\ RatioCalled
    /\ calc.gmrt = GMRT_INITAL_MILLISECONDS
    /\ calc.responseTime = 2 * calc.gmrt + 1
    /\ calc.result = UINT32_MAX

\* C14: the ratio is UINT32_MAX for every t >= 2 * gmrt, UINT32_MAX / 2 for
\* t = gmrt, and 0 for t = 0.
C14_RatioFixedPoints ==
    RatioCalled =>
        /\ calc.responseTime >= 2 * calc.gmrt => calc.result = UINT32_MAX
        /\ calc.responseTime = calc.gmrt => calc.result = UINT32_MAX \div 2
        /\ calc.responseTime = 0 => calc.result = 0

\* the callback has just answered stop to an accepted reply: cleanup ran
StopAnswered ==
    last.op = "handleIncoming" /\ last.y = "r" /\ last.cbs = 1 /\ last.cbRet # 0

\* C15: on finalisation the walk starts at the synthetic node for the
\* target, the child of the last peer that replied, and credits every peer
\* of the chain, the last replier included: the node store the handler
\* leaves is the one that walk leaves (the reaches as before the reply, each
\* parent of the chain from the synthetic node to the seed credited).
C15_ChainCredited ==
    [][StopAnswered' /\ ~crashed' =>
           LET s == last'.search
               search == searches'[s]
               synthetic == Len(search.nodes)
               before == [id \in DOMAIN nodeStore' |->
                            [nodeStore'[id] EXCEPT
                                !.reach = IF id \in DOMAIN nodeStore
                                          THEN nodeStore[id].reach ELSE 0]]
               m == [Module EXCEPT !.nodeStore = before, !.searches = searches']
               walked == cleanupWalk(m, s, SearchStore_backTrace(search, synthetic), 1)
           IN  /\ search.nodes[synthetic].parent = last'.node
               /\ search.nodes[synthetic].id = search.target
               /\ nodeStore' \in {x.nodeStore : x \in {y \in walked : ~y.crashed}}]_vars

\* C16: the reach of a record that is in the store before and after a
\* finalisation is not smaller after it (the sum saturates, it does not
\* wrap).
C16_ReachNeverDecreases ==
    [][StopAnswered' /\ ~crashed' =>
           \A id \in DOMAIN nodeStore :
               id \in DOMAIN nodeStore' =>
                   nodeStore'[id].reach >= nodeStore[id].reach]_vars

\* the back-trace of the last replier in the search that was finalised
LastTrace == SearchStore_backTrace(searches[last.search], last.node)

\* the id of the i-th SearchNode of that back-trace
LastTraceId(i) == searches[last.search].nodes[LastTrace[i]].id

AddedIds ==
    IF last.op = "handleIncoming" /\ last.nodes = "ok"
    THEN {last.chunks[i][1] : i \in 1..Len(last.chunks)}
    ELSE IF last.idLen = 20 THEN {last.id}
    ELSE {}

\* the sender's id of a ping answer was read out of bounds
GarbageIdAdded ==
    /\ last.op = "handleIncoming"
    /\ last.y = "r"
    /\ last.args
    /\ last.nodes # "ok"
    /\ last.idLen # 20

ReplyAccepted ==
    last.op = "handleIncoming" /\ last.y = "r" /\ last.nodes = "ok" /\ last.node # 0

\* C19: for an accepted reply every record of the nodes field is in the
\* node store and in the search's trie, as a child of the node that
\* replied, and all of them were there when the callback was invoked.
C19_ChunksBeforeCallback ==
    [][ReplyAccepted' =>
           LET s == last'.search
               was == Len(searches[s].nodes)
               k == Len(last'.chunks)
           IN  /\ last'.cbs = 1
               /\ last'.cbView.nodes = was + k
               /\ \A i \in 1..k :
                     /\ last'.chunks[i][1] \in last'.cbView.store
                     /\ ~crashed' =>
                            /\ last'.chunks[i][1] \in DOMAIN nodeStore'
                            /\ searches'[s].nodes[was + i].id = last'.chunks[i][1]
                            /\ searches'[s].nodes[was + i].addr = last'.chunks[i][2]
                            /\ searches'[s].nodes[was + i].parent = last'.node]_vars

\* a reply that brought two records, neither in the store before
C19_Witness ==
    /\ ReplyAccepted
    /\ ~crashed
    /\ Len(last.chunks) = 2
    /\ last.chunks[1][1] # last.chunks[2][1]
    /\ last.cbs = 1
    /\ last.cbRet = 0

\* C20: the reach of a record changes only in a handler whose callback
\* answered stop, and then after every record of the reply (and of the
\* replies before it) was in the search's trie: begin_search, a timer fire,
\* a served query and a reply answered with continue leave every reach as
\* it was.
C20_ReachOnlyOnFinalisation ==
    [][~crashed' =>
           \A id \in (DOMAIN nodeStore) \cap (DOMAIN nodeStore') :
               nodeStore'[id].reach # nodeStore[id].reach =>
                   /\ StopAnswered'
                   /\ last'.cbView.nodes =
                          Len(searches[last'.search].nodes) + Len(last'.chunks)
                   /\ Len(searches'[last'.search].nodes) = last'.cbView.nodes + 1]_vars

\* a search of two replies has been finalised and a peer credited
C20_Witness ==
    /\ StopAnswered
    /\ ~crashed
    /\ Len(LastTrace) >= 2
    /\ \E id \in DOMAIN nodeStore : nodeStore[id].reach > 0

\* the timer of a search that is in flight has fired and searchStep found a
\* next node
TimerAdvanced ==
    last.op = "timerFire" /\ ~crashed /\ ~last.stopped /\ last.next # 0

\* the SearchNodes of a search that were sent a request
SentNodes(search) == {n \in 1..Len(search.nodes) : search.nodes[n].sent}

\* C21: a timer fire that finds a next candidate sends exactly one request,
\* to that node, with its tid and the search's request type and target;
\* the send time is recorded on the node, one more node awaits its reply,
\* and the timer is armed again with 2 * gmrt. No request carries the tid of
\* a SearchNode that was sent one before.
C21_TimerFireAdvances ==
    [][/\ TimerAdvanced' =>
              LET s == last'.search
                  n == last'.next
                  search == searches'[s]
              IN  /\ Len(out') = 1
                  /\ out'[1].y = "q"
                  /\ out'[1].to = search.nodes[n].addr
                  /\ out'[1].t = <<s, n>>
                  /\ out'[1].q = search.requestType
                  /\ out'[1].target = search.target
                  /\ search.nodes[n].sendTime = Time_currentTimeMilliseconds
                  /\ SentNodes(search) = SentNodes(searches[s]) \cup {n}
                  /\ n \notin SentNodes(searches[s])
                  /\ search.timer =
                         [armed |-> TRUE,
                          delay |-> 2 * AverageRoller_getAverage(roller),
                          at |-> Time_currentTimeMilliseconds]
       /\ (~crashed' /\ out' # out) =>
              \A i \in 1..Len(out') :
                  LET t == out'[i].t
                  IN  (out'[i].y = "q" /\ t # NoTid) =>
                          /\ t[1] \in 1..Len(searches')
                          /\ t[2] \in SentNodes(searches'[t[1]])
                          /\ t[1] \in 1..Len(searches) =>
                                 t[2] \notin SentNodes(searches[t[1]])]_vars

\* the timer fired after the first request and the second seed was asked
C21_Witness ==
    /\ TimerAdvanced
    /\ Len(out) = 1
    /\ out[1].t = <<last.search, last.next>>
    /\ Cardinality(SentNodes(searches[last.search])) = 2
    /\ Time_currentTimeMilliseconds > 0

\* searchStep ran on a search in flight and SearchStore_getNextNode found no
\* candidate
CandidatesExhausted ==
    /\ last.op = "timerFire" \/ ReplyContinued
    /\ ~last.stopped
    /\ last.next = 0

\* C22: when next_node returns NULL, from a timer fire or from a reply
\* answered with continue, the search is finalised and no request is built
\* or sent from the missing node; searchStep never uses a NULL next node.
C22_ExhaustedFinalises ==
    CandidatesExhausted =>
        /\ ~crashed
        /\ \A i \in 1..Len(out) : out[i].y # "q"
        /\ searches[last.search].stopped

\* C23: the parent of every SearchNode is NULL (a seed) or a SearchNode of
\* the same search that was sent a request and has replied, and following
\* parents reaches a seed in finitely many steps, also for replies that are
\* late, repeated, or carry the tid of a node that was never sent a request.
C23_ParentsWereAsked ==
    \A s \in 1..Len(searches) :
        \A n \in 1..Len(searches[s].nodes) :
            LET parent == searches[s].nodes[n].parent
            IN  \/ parent = 0
                \/ /\ parent \in 1..(n - 1)
                   /\ searches[s].nodes[parent].sent
                   /\ searches[s].nodes[parent].replied

\* a reply to an inbound query left handleOutgoing, and the query had no
\* usable sender id or no usable target
PlainReplySent ==
    /\ last.op = "handleOutgoing" /\ last.y = "r"
    /\ last.idLen # 20 \/ last.target = -1

\* C24: a reply to a query that holds neither a 20-byte target nor a 20-byte
\* info_hash, or whose sender id is missing or not 20 bytes, carries myId and
\* no nodes key; the querier is recorded in the node store only if its id is
\* present and exactly 20 bytes.
C24_PlainReplyHasNoNodes ==
    [][PlainReplySent' =>
           /\ ~crashed'
           /\ Len(out') = 1
           /\ out'[1].y = "r"
           /\ out'[1].hasArgs
           /\ out'[1].myId = MyId
           /\ ~out'[1].hasNodes
           /\ out'[1].nodes = <<>>
           /\ last'.idLen # 20 => nodeStore' = nodeStore
           /\ last'.idLen = 20 =>
                  /\ last'.id \in DOMAIN nodeStore'
                  /\ \A id \in DOMAIN nodeStore' \ {last'.id} :
                         id \in DOMAIN nodeStore /\ nodeStore'[id] = nodeStore[id]]_vars

\* a querier whose id is present but not 20 bytes long was answered, while
\* the node store held a node, with our id and without nodes
C24_Witness ==
    /\ PlainReplySent
    /\ last.idLen \notin {-1, 20}
    /\ DOMAIN nodeStore # {}
    /\ Len(out) = 1
    /\ ~out[1].hasNodes
    /\ out[1].myId = MyId

\* C25: a begin_search that returns -1 leaves the search store as it was
\* before the call; no search stays registered for the failed request.
C25_FailedSearchNotKept ==
    [][(BeginSearchRan' /\ last'.ret = -1) => searches' = searches]_vars

\* C26: no division by zero is reachable in reach attribution: the mean that
\* calculateResponseTimeRatio divides by and the ratio that the reach gain
\* is divided by are non-zero, also for a reply delay of 0. The walk of
\* cleanup stops the process only on a division by zero, so a reply answered
\* with stop is always survived.
C26_NoDivisionByZero ==
    StopAnswered => ~crashed

\* a call of the event loop wrapper has just been made
EventStep(op) == ev'.turn # ev.turn /\ ev'.op = op

\* C27: EventBase_beginLoop does not return while EventBase_refctr is not
\* zero: a loop run that ends with the counter non-zero is followed by
\* another run of the same loop, and beginLoop returns, with running reset
\* to 0, only from a run that ends with the counter at zero; under every
\* interleaving of EventBase_ref and EventBase_unref the counter is the
\* number of refs less the number of unrefs.
C27_LoopHeldByRefctr ==
    [][/\ EventStep("runEnds") =>
              LET b == ev'.base
              IN  /\ ev'.returned <=> EventBase_refctr = 0
                  /\ ev'.returned =>
                         /\ bases'[b].running = 0
                         /\ stack' = SubSeq(stack, 1, Len(stack) - 1)
                  /\ ~ev'.returned =>
                         /\ bases'[b].running = 1
                         /\ bases'[b].restarted
                         /\ bases'[b].blockTimer = "started"
                         /\ stack' = stack
       /\ EventBase_refctr' = ev'.refs - ev'.unrefs
       /\ EventStep("ref") => EventBase_refctr' = EventBase_refctr + 1
       /\ EventStep("unref") => EventBase_refctr' = EventBase_refctr - 1]_vars

\* beginLoop has returned from a loop that was run again, because the
\* counter was not zero, before an unref brought the counter to zero
C27_Witness ==
    /\ ev.op = "runEnds" /\ ev.returned
    /\ bases[ev.base].restarted
    /\ bases[ev.base].running = 0
    /\ EventBase_refctr = 0
    /\ ev.refs > 0 /\ ev.unrefs = ev.refs

\* EventBase_beginLoop is active on base b
InBeginLoop(b) == \E i \in 1..Len(stack) : stack[i] = b

\* C28: freeing the allocator of a base whose loop is running defers the
\* teardown: onFree stores the job, stops the loop and answers ASYNC, and
\* the loop is deleted and Allocator_onFreeComplete called, once each, by
\* EventBase_beginLoop after running was reset to 0; freeing a base whose
\* loop is not running deletes the loop at once, and once. The loop is never
\* deleted twice, and no free job is pending once beginLoop has returned.
C28_TeardownOnce ==
    [][/\ EventStep("free") =>
              LET old == bases[ev'.base]
                  new == bases'[ev'.base]
              IN  /\ old.running = 1 =>
                         /\ ev'.ret = Allocator_ONFREE_ASYNC
                         /\ new.onFree /\ new.stop
                         /\ new.loop # "deleted" /\ new.deleted = 0
                         /\ new.completed = 0
                  /\ old.running = 0 =>
                         /\ ev'.ret = 0
                         /\ ~new.onFree
                         /\ new.loop = "deleted" /\ new.deleted = 1
                         /\ new.completed = 0
       /\ (EventStep("runEnds") /\ ev'.returned /\ bases[ev'.base].onFree) =>
              LET new == bases'[ev'.base]
              IN  /\ new.running = 0
                  /\ new.loop = "deleted" /\ new.deleted = 1
                  /\ new.completed = 1
       /\ \A b \in 1..Len(bases) :
              (bases'[b].deleted # bases[b].deleted
                   \/ bases'[b].completed # bases[b].completed) =>
                  /\ ev'.base = b
                  /\ \/ EventStep("free") /\ bases[b].running = 0
                     \/ EventStep("runEnds") /\ ev'.returned /\ bases[b].onFree
       /\ \A b \in 1..Len(bases') :
              /\ bases'[b].deleted <= 1
              /\ bases'[b].completed <= 1
              /\ (bases'[b].onFree /\ bases'[b].completed = 0) =>
                     /\ InBeginLoop(b)'
                     /\ bases'[b].running = 1]_vars

\* beginLoop has returned from a loop whose base was freed while it ran,
\* having deleted the loop and completed the job
C28_Witness ==
    /\ ev.op = "runEnds" /\ ev.returned
    /\ bases[ev.base].onFree
    /\ bases[ev.base].running = 0
    /\ bases[ev.base].deleted = 1
    /\ bases[ev.base].completed = 1
    /\ ~InBeginLoop(ev.base)

\* C29: running is 1 exactly while EventBase_beginLoop is active on the
\* base; beginLoop on a base that is running trips the "double begin"
\* assertion, and on one that is not running trips nothing; EventBase_new
\* trips its assertion exactly when EventBase_refctr is not zero.
C29_AssertionsGuardUse ==
    [][/\ \A b \in 1..Len(bases') :
              bases'[b].running = 1 <=> InBeginLoop(b)'
       /\ \A b \in 1..Len(bases') : bases'[b].running \in {0, 1}
       /\ EventStep("beginLoop") =>
              /\ ev'.failed = "double begin" <=> bases[ev'.base].running = 1
              /\ ev'.failed = "double begin" \/ ev'.failed = ""
              /\ ev'.failed = "" =>
                     /\ bases'[ev'.base].running = 1
                     /\ stack' = Append(stack, ev'.base)
              /\ ev'.failed # "" => bases' = bases /\ stack' = stack
       /\ EventStep("new") =>
              /\ ev'.failed = "EventBase_refctr == 0" <=> EventBase_refctr # 0
              /\ ev'.failed = "EventBase_refctr == 0" \/ ev'.failed = ""
              /\ ev'.failed = "" =>
                     /\ Len(bases') = Len(bases) + 1
                     /\ bases'[Len(bases')].running = 0]_vars

\* beginLoop was called on a base whose loop is running and tripped the
\* assertion
C29_Witness ==
    /\ ev.op = "beginLoop"
    /\ ev.failed = "double begin"
    /\ bases[ev.base].running = 1
    /\ InBeginLoop(ev.base)

====
